---- MODULE Spec2Model ----
(***************************************************************************)
(* The element lifecycle of backend/chainlit/element.py: construction,     *)
(* Element._create, Element.send, Element.remove, TaskList.send/update/    *)
(* add_task and CustomElement.update, run against the two collaborators    *)
(* the module calls (the session with its emitter, and the data layer).    *)
(*                                                                         *)
(* One element instance is followed.  A call is cut into steps at the      *)
(* points where the coroutine really suspends (the awaited persist_file,   *)
(* delete_element and emitter calls); the task spawned with                *)
(* asyncio.create_task runs between those steps.                           *)
(***************************************************************************)
EXTENDS Integers, Sequences, FiniteSets, TLC

\* number of lifecycle calls (send / update / _create / remove) followed
MaxCalls == 2
\* number of tasks a TaskList may receive through add_task
MaxTasks == 1

\* Python's None, for the Optional[str] fields
NoneV == "None"

\* truthiness of an Optional[str] (`not self.url`)
Falsy(v) == v = NoneV \/ v = ""

(***************************************************************************)
(* content is Optional[Union[bytes, str]].  It is written as a sequence of *)
(* strings whose head is the Python type: <<"None">>, <<"bytes", ...>>,    *)
(* <<"str", ...>>; b"" and "" are <<"bytes">> and <<"str">>.               *)
(***************************************************************************)
NoContent == <<"None">>
ContentFalsy(c) == Len(c) = 1
IsBytes(c) == c[1] = "bytes"

mime_types == [text |-> "text/plain", tasklist |-> "application/json", plotly |-> "application/json"]

ElementType == {"image", "text", "pdf", "tasklist", "audio", "video", "file",
                "plotly", "dataframe", "custom"}

\* the values the model draws the constructor arguments from
Urls == {NoneV, "https://x/y.png"}
Paths == {NoneV, "/tmp/a.png"}
Contents == {NoContent, <<"bytes", "hello">>}
InitKeys == {NoneV, "k0"}
InitMimes == {NoneV, "image/png"}
\* for_id arguments of send
ForIds == {"m1", "m2"}
\* the ids the session's persist_file may return in file_dict["id"]
FileIds == {"", "k1", "k2"}
\* TaskStatus, by value
TaskStatus == {"ready", "running", "failed", "done"}
\* the values the model assigns to the status of a task already in the list
AssignedStatus == {"running"}
\* the values given to TaskList.status
Statuses == {"Ready", "Running"}
\* tasks handed to add_task
Tasks == {[title |-> "t1", status |-> "ready", forId |-> NoneV],
          [title |-> "t2", status |-> "done", forId |-> NoneV]}

\* filetype.guess(...).mime on the values above (None when nothing is recognised)
SniffPath(p) == IF p = "/tmp/a.png" THEN "image/png" ELSE NoneV
SniffBytes(c) == IF c = <<"bytes", "png">> THEN "image/png" ELSE NoneV
\* mimetypes.guess_type(url)[0]
GuessType(u) == IF u = "https://x/y.png" THEN "image/png" ELSE NoneV

\* json.dumps({"status": ..., "tasks": [...]}, indent=4) as a token sequence
RECURSIVE TaskTokens(_)
TaskTokens(ts) ==
    IF ts = <<>> THEN <<>>
    ELSE <<Head(ts).title, Head(ts).status, Head(ts).forId>> \o TaskTokens(Tail(ts))

\* TaskList.send without the assignment of line 370: content is left as found
preprocess_content_kept(e) == e

preprocess_content(e) ==
    [e EXCEPT !.content = <<"str", "status", e.status, "tasks">> \o TaskTokens(e.tasks)]

(***************************************************************************)
(* Construction: the dataclass defaults of the variant and __post_init__.  *)
(* An argument equal to NoneV / NoContent is an argument the caller left   *)
(* out.                                                                    *)
(***************************************************************************)
New(t, url, path, content, key, mime) ==
    [ id |-> "e1",
      thread_id |-> "th1",
      type |-> t,
      name |-> IF t = "tasklist" THEN "tasklist" ELSE "a.txt",
      chainlit_key |-> key,
      url |-> url,
      object_key |-> NoneV,
      path |-> path,
      content |-> CASE t = "custom" -> <<"str", "{}">>
                    [] t = "plotly" -> <<"str", "figure json">>
                    [] t = "dataframe" -> <<"str", "split json">>
                    [] t = "tasklist" -> <<"str", "dummy content to pass validation">>
                    [] OTHER -> content,
      display |-> "inline",
      size |-> CASE t \in {"image", "video", "plotly"} -> "medium"
                 [] t = "dataframe" -> "large"
                 [] OTHER -> NoneV,
      for_id |-> NoneV,
      language |-> NoneV,
      page |-> NoneV,
      auto_play |-> IF t = "audio" THEN "False" ELSE NoneV,
      player_config |-> NoneV,
      mime |-> CASE t = "plotly" -> "application/json"
                 [] t = "pdf" /\ mime = NoneV -> "application/pdf"
                 [] t = "custom" /\ mime = NoneV -> "application/json"
                 [] OTHER -> mime,
      props |-> IF t = "custom" THEN "{}" ELSE NoneV,
      tasks |-> <<>>,
      status |-> IF t = "tasklist" THEN "Ready" ELSE NoneV,
      persisted |-> FALSE,
      updatable |-> t \in {"tasklist", "custom"} ]

\* __post_init__ without the check of lines 104-105
PostInitAlways(e) == TRUE

\* the check of Element.__post_init__: no ValueError is raised
PostInitOK(e) == ~(Falsy(e.url) /\ Falsy(e.path) /\ ContentFalsy(e.content))

to_dict(e) ==
    [ id |-> e.id, threadId |-> e.thread_id, type |-> e.type, url |-> e.url,
      chainlitKey |-> e.chainlit_key, name |-> e.name, display |-> e.display,
      objectKey |-> e.object_key, size |-> e.size, props |-> e.props,
      page |-> e.page, autoPlay |-> e.auto_play, playerConfig |-> e.player_config,
      language |-> e.language, forId |-> e.for_id, mime |-> e.mime ]

\* e_dict.get(k, dflt)
Get(d, k, dflt) == IF k \in DOMAIN d THEN d[k] ELSE dflt

\* `str(x) if x else None` on the url or the path of a dictionary
StrOrNone(v) == IF Falsy(v) THEN NoneV ELSE v

\* `str(x) if x else None` on the content of a dictionary: a str is kept,
\* bytes become the text of their repr
StrOrNoneContent(c) ==
    IF ContentFalsy(c) THEN NoContent
    ELSE IF IsBytes(c) THEN <<"str", "b'">> \o Tail(c) \o <<"'">>
    ELSE c

\* common_params of from_dict laid over the defaults of variant t
Decoded(t, d) ==
    [New(t, StrOrNone(Get(d, "url", NoneV)), StrOrNone(Get(d, "path", NoneV)),
         StrOrNoneContent(Get(d, "content", NoContent)), Get(d, "chainlitKey", NoneV), NoneV)
       EXCEPT !.id = Get(d, "id", "uuid4"),
              !.for_id = Get(d, "forId", NoneV),
              !.name = Get(d, "name", ""),
              !.object_key = Get(d, "objectKey", NoneV),
              !.display = Get(d, "display", "inline"),
              !.mime = Get(d, "mime", "")]

\* the instance or the exception a constructor call ends with
Object(e) == [err |-> "-", obj |-> <<e>>]
Raised(x) == [err |-> x, obj |-> <<>>]
Checked(e) == IF PostInitOK(e) THEN Object(e) ELSE Raised("ValueError")

\* Element.from_dict
from_dict(d) ==
    LET type == Get(d, "type", "file")
    IN CASE type = "image" -> Checked([Decoded("image", d) EXCEPT !.size = "medium"])
         [] type = "audio" ->
              Checked([Decoded("audio", d) EXCEPT !.auto_play = Get(d, "autoPlay", "False")])
         [] type = "video" ->
              Checked([Decoded("video", d) EXCEPT !.player_config = Get(d, "playerConfig", NoneV)])
         [] type = "plotly" ->
              \* Plotly(size=..., **common_params): no figure is passed
              Raised("TypeError")
         [] type = "custom" ->
              Checked([Decoded("custom", d) EXCEPT !.props = Get(d, "props", "{}"),
                                                   !.content = <<"str", Get(d, "props", "{}")>>])
         [] OTHER -> Checked(Decoded("file", d))

\* the mime resolution falling back on the url when sniffing finds nothing
ResolveMimeUrlFallback(e) ==
    IF ~Falsy(e.mime) THEN e
    ELSE IF e.type \in DOMAIN mime_types THEN [e EXCEPT !.mime = mime_types[e.type]]
    ELSE LET m == IF ~Falsy(e.path) THEN SniffPath(e.path)
                  ELSE IF IsBytes(e.content) THEN SniffBytes(e.content) ELSE NoneV
         IN IF m # NoneV THEN [e EXCEPT !.mime = m]
            ELSE IF ~Falsy(e.url) THEN [e EXCEPT !.mime = GuessType(e.url)]
            ELSE e

\* the mime resolution at the head of Element.send
ResolveMime(e) ==
    IF ~Falsy(e.mime) THEN e
    ELSE IF e.type \in DOMAIN mime_types THEN [e EXCEPT !.mime = mime_types[e.type]]
    ELSE IF ~Falsy(e.path) \/ IsBytes(e.content)
         THEN LET m == IF ~Falsy(e.path) THEN SniffPath(e.path) ELSE SniffBytes(e.content)
              IN IF m # NoneV THEN [e EXCEPT !.mime = m] ELSE e
    ELSE IF ~Falsy(e.url) THEN [e EXCEPT !.mime = GuessType(e.url)]
    ELSE e

\* the early return with the `not` of line 207 dropped
ShortCircuitInverted(e) == e.persisted /\ e.updatable

\* `if self.persisted and not self.updatable: return True`
ShortCircuit(e) == e.persisted /\ ~e.updatable

\* line 215 without its `not self.url` test
NeedsUploadIgnoringUrl(e) == Falsy(e.chainlit_key) \/ e.updatable

\* line 215 without its `or self.updatable`
NeedsUploadOnce(e) == Falsy(e.url) /\ Falsy(e.chainlit_key)

\* `if not self.url and (not self.chainlit_key or self.updatable)`
NeedsUpload(e) == Falsy(e.url) /\ (Falsy(e.chainlit_key) \/ e.updatable)

\* send without the check of line 249
DeliverableAlways(e) == TRUE

\* the negation of `if not self.url and not self.chainlit_key: raise ValueError`
Deliverable(e) == ~(Falsy(e.url) /\ Falsy(e.chainlit_key))

\* the keyword arguments of context.session.persist_file
PersistArgs(e) ==
    [name |-> e.name, path |-> e.path, content |-> e.content,
     mime |-> IF Falsy(e.mime) THEN "" ELSE e.mime]

(***************************************************************************)
(* State.                                                                  *)
(*   el         the element instance                                       *)
(*   dataLayer  whether get_data_layer() returns a data layer              *)
(*   frame      per caller: where its current call stands, and what that   *)
(*              call has asked of the collaborators so far (tr, in order)  *)
(*   pending    the calls whose create_element task is spawned and has not *)
(*              run yet                                                    *)
(*   calls      calls started so far                                       *)
(*   keyAssigns executions of `self.chainlit_key = file_dict["id"]`        *)
(*   overlap    whether some call was started while another caller's call  *)
(*              was still in progress                                      *)
(*   codec      the construction / to_dict / from_dict / mime resolution   *)
(*              applied to one drawn input, outside any lifecycle call     *)
(***************************************************************************)
VARIABLES el, dataLayer, frame, pending, calls, keyAssigns, overlap, codec

vars == <<el, dataLayer, frame, pending, calls, keyAssigns, overlap, codec>>

Callers == {"main", "other"}

\* what asyncio.create_task(data_layer.create_element(self)) may do at line 212
Spawns == {"task", "raised"}

IdleFrame ==
    [ pc |-> "idle", op |-> "none", call |-> 0, arg |-> "-", persist |-> TRUE,
      pre |-> <<>>, tr |-> <<>>, upload |-> <<>>, out |-> <<>>,
      ret |-> "-", err |-> "-", fileId |-> "-", metaSaw |-> "-" ]

\* nothing is being encoded or decoded
NoCodec == [phase |-> "off"]

\* a caller is between two calls
AtRest(f) == f.pc \in {"idle", "done", "raised"}

Init ==
    \E t \in ElementType, u \in Urls, p \in Paths, c \in Contents,
       k \in InitKeys, m \in InitMimes, dl \in BOOLEAN :
        /\ PostInitOK(New(t, u, p, c, k, m))
        /\ el = New(t, u, p, c, k, m)
        /\ dataLayer = dl
        /\ frame = [x \in Callers |-> IdleFrame]
        /\ pending = {}
        /\ calls = 0
        /\ keyAssigns = 0
        /\ overlap = FALSE
        /\ codec = NoCodec

(***************************************************************************)
(* Element._create and what follows it in the calling operation, as        *)
(* functions from (element, frame) to (element, frame).                    *)
(***************************************************************************)

\* after `_create` has returned True: the direct caller gets True; send goes
\* on to the reference check and to emitter.send_element(self.to_dict())
AfterCreate(e, f) ==
    IF f.op = "create"
    THEN [f EXCEPT !.pc = "done", !.ret = "True"]
    ELSE IF ~Deliverable(e)
    THEN [f EXCEPT !.pc = "raised", !.err = "ValueError"]
    ELSE [f EXCEPT !.pc = "emitting",
                   !.tr = Append(@, "send_element"),
                   !.out = Append(@, [event |-> "send_element", data |-> to_dict(e)])]

\* lines 210-214 without the `and persist` of line 210
SpawnMetaAlways(f, persist, dl, spawn) ==
    IF ~dl THEN f
    ELSE IF spawn = "task" THEN [f EXCEPT !.tr = Append(@, "create_element")]
    ELSE [f EXCEPT !.tr = @ \o <<"create_element", "logger.error">>]

\* lines 210-214: the metadata write is handed to asyncio.create_task inside
\* try/except; an exception raised there is logged and dropped
SpawnMeta(f, persist, dl, spawn) ==
    IF ~(dl /\ persist) THEN f
    ELSE IF spawn = "task" THEN [f EXCEPT !.tr = Append(@, "create_element")]
    ELSE [f EXCEPT !.tr = @ \o <<"create_element", "logger.error">>]

Spawned(persist, dl, spawn) == dl /\ persist /\ spawn = "task"

\* _create with lines 210-214 moved below the upload request
CreateEnterUploadFirst(e, f, persist, dl, spawn) ==
    IF ShortCircuit(e)
    THEN [e |-> e, f |-> AfterCreate(e, f), spawned |-> FALSE]
    ELSE IF NeedsUpload(e)
    THEN [e |-> e,
          f |-> [SpawnMeta([f EXCEPT !.tr = Append(@, "persist_file")], persist, dl, spawn)
                    EXCEPT !.pc = "uploading", !.upload = <<PersistArgs(e)>>],
          spawned |-> Spawned(persist, dl, spawn)]
    ELSE [e |-> [e EXCEPT !.persisted = TRUE],
          f |-> AfterCreate([e EXCEPT !.persisted = TRUE], SpawnMeta(f, persist, dl, spawn)),
          spawned |-> Spawned(persist, dl, spawn)]

\* _create from its entry to its first suspension (the awaited persist_file)
\* or, when nothing is uploaded, to its return
CreateEnter(e, f, persist, dl, spawn) ==
    IF ShortCircuit(e)
    THEN [e |-> e, f |-> AfterCreate(e, f), spawned |-> FALSE]
    ELSE LET f1 == SpawnMeta(f, persist, dl, spawn)
             sp == Spawned(persist, dl, spawn)
         IN IF NeedsUpload(e)
            THEN [e |-> e,
                  f |-> [f1 EXCEPT !.pc = "uploading",
                                   !.tr = Append(@, "persist_file"),
                                   !.upload = <<PersistArgs(e)>>],
                  spawned |-> sp]
            ELSE LET e1 == [e EXCEPT !.persisted = TRUE]
                 IN [e |-> e1, f |-> AfterCreate(e1, f1), spawned |-> sp]

\* _create without the assignment of line 222
CreateResumeNoKey(e, f, fileId) ==
    [e |-> [e EXCEPT !.persisted = TRUE],
     f |-> AfterCreate([e EXCEPT !.persisted = TRUE],
                       [f EXCEPT !.tr = Append(@, "file_dict"), !.fileId = fileId])]

\* _create without the assignment of line 224
CreateResumeUnmarked(e, f, fileId) ==
    LET e1 == [e EXCEPT !.chainlit_key = fileId]
        f1 == [f EXCEPT !.tr = Append(@, "file_dict"), !.fileId = fileId]
    IN [e |-> e1, f |-> AfterCreate(e1, f1)]

\* lines 222-226, once persist_file has returned file_dict
CreateResume(e, f, fileId) ==
    LET e1 == [e EXCEPT !.chainlit_key = fileId, !.persisted = TRUE]
        f1 == [f EXCEPT !.tr = Append(@, "file_dict"), !.fileId = fileId]
    IN [e |-> e1, f |-> AfterCreate(e1, f1)]

\* Element.send without the assignment of line 235
SendEnterKeepsForId(e, f, for_id, persist, dl, spawn) ==
    CreateEnter(ResolveMime(e), f, persist, dl, spawn)

\* Element.send from its entry to its first suspension
SendEnter(e, f, for_id, persist, dl, spawn) ==
    CreateEnter(ResolveMime([e EXCEPT !.for_id = for_id]), f, persist, dl, spawn)

\* the frame of a call: its operation, its for_id argument ("-" when the
\* operation takes none), its persist argument, the element as it was found
NewFrame(op, for_id, persist, e) ==
    [IdleFrame EXCEPT !.pc = "running", !.op = op, !.call = calls + 1,
                      !.arg = for_id, !.persist = persist, !.pre = <<e>>]

\* a caller may start a call
CanCall(p) == AtRest(frame[p]) /\ calls < MaxCalls

\* caller p starts a call while another caller is inside one
Racing(p) == \E q \in Callers \ {p} : ~AtRest(frame[q])

Begin(p, r) ==
    /\ el' = r.e
    /\ frame' = [frame EXCEPT ![p] = r.f]
    /\ pending' = IF r.spawned THEN pending \cup {r.f.call} ELSE pending
    /\ calls' = calls + 1
    /\ overlap' = (overlap \/ Racing(p))
    /\ UNCHANGED <<dataLayer, codec, keyAssigns>>

(***************************************************************************)
(* The operations.                                                         *)
(***************************************************************************)

\* Element.send(for_id, persist) on a variant that does not override send
Send(p) ==
    \E for_id \in ForIds, persist \in BOOLEAN, spawn \in Spawns :
        /\ CanCall(p)
        /\ el.type # "tasklist"
        /\ Begin(p, SendEnter(el, NewFrame("send", for_id, persist, el), for_id, persist,
                              dataLayer, spawn))

\* TaskList.send(): preprocess_content, then Element.send(for_id="")
TaskListSend(p) ==
    \E spawn \in Spawns :
        /\ CanCall(p)
        /\ el.type = "tasklist"
        /\ Begin(p, SendEnter(preprocess_content(el), NewFrame("send", "", TRUE, el), "",
                              TRUE, dataLayer, spawn))

\* TaskList.update(): self.send()
TaskListUpdate(p) ==
    \E spawn \in Spawns :
        /\ CanCall(p)
        /\ el.type = "tasklist"
        /\ Begin(p, SendEnter(preprocess_content(el), NewFrame("update", "", TRUE, el), "",
                              TRUE, dataLayer, spawn))

\* CustomElement.update passing an empty for_id, as TaskList.send does
CustomUpdateBlank(p) ==
    \E spawn \in Spawns :
        /\ CanCall(p)
        /\ el.type = "custom"
        /\ Begin(p, SendEnter(el, NewFrame("update", "", TRUE, el), "", TRUE,
                              dataLayer, spawn))

\* CustomElement.update(): Element.send(self.for_id)
CustomUpdate(p) ==
    \E spawn \in Spawns :
        /\ CanCall(p)
        /\ el.type = "custom"
        /\ Begin(p, SendEnter(el, NewFrame("update", el.for_id, TRUE, el), el.for_id, TRUE,
                              dataLayer, spawn))

\* Element._create(persist) called on its own
Create(p) ==
    \E persist \in BOOLEAN, spawn \in Spawns :
        /\ CanCall(p)
        /\ Begin(p, CreateEnter(el, NewFrame("create", "-", persist, el), persist,
                                dataLayer, spawn))

\* persist_file returns file_dict: _create resumes, and send after it
UploadDone(p) ==
    \E fileId \in FileIds :
        /\ frame[p].pc = "uploading"
        /\ LET r == CreateResume(el, frame[p], fileId)
           IN /\ el' = r.e
              /\ frame' = [frame EXCEPT ![p] = r.f]
        /\ keyAssigns' = keyAssigns + 1
        /\ UNCHANGED <<dataLayer, codec, pending, calls, overlap>>

\* persist_file raises inside a try/except that logs and goes on
UploadFailSwallowed(p) ==
    /\ frame[p].pc = "uploading"
    /\ LET e1 == [el EXCEPT !.persisted = TRUE]
           f1 == [frame[p] EXCEPT !.tr = @ \o <<"persist_file raised", "logger.error">>]
       IN /\ el' = e1
          /\ frame' = [frame EXCEPT ![p] = AfterCreate(e1, f1)]
    /\ UNCHANGED <<dataLayer, codec, pending, calls, keyAssigns, overlap>>

\* persist_file raises: nothing in _create or send catches it
UploadFail(p) ==
    /\ frame[p].pc = "uploading"
    /\ frame' = [frame EXCEPT ![p] = [@ EXCEPT !.pc = "raised", !.err = "UploadError",
                                               !.tr = Append(@, "persist_file raised")]]
    /\ UNCHANGED <<el, dataLayer, codec, pending, calls, keyAssigns, overlap>>

\* the awaited emitter.send_element returns, and send with it
SendReturn(p) ==
    /\ frame[p].pc = "emitting"
    /\ frame' = [frame EXCEPT ![p] = [@ EXCEPT !.pc = "done", !.ret = "None"]]
    /\ UNCHANGED <<el, dataLayer, codec, pending, calls, keyAssigns, overlap>>

\* Element.remove() from its entry to its first suspension
Remove(p) ==
    /\ CanCall(p)
    /\ LET f == NewFrame("remove", "-", TRUE, el)
       IN frame' = [frame EXCEPT ![p] =
             IF dataLayer
             THEN [f EXCEPT !.pc = "deleting", !.tr = Append(@, "delete_element")]
             ELSE [f EXCEPT !.pc = "removing", !.tr = Append(@, "remove_element"),
                            !.out = Append(@, [event |-> "remove_element",
                                               data |-> [id |-> el.id]])]]
    /\ calls' = calls + 1
    /\ overlap' = (overlap \/ Racing(p))
    /\ UNCHANGED <<el, dataLayer, codec, pending, keyAssigns>>

\* the awaited delete_element returns: remove emits remove_element
DeleteDone(p) ==
    /\ frame[p].pc = "deleting"
    /\ frame' = [frame EXCEPT ![p] =
          [@ EXCEPT !.pc = "removing", !.tr = Append(@, "remove_element"),
                    !.out = Append(@, [event |-> "remove_element",
                                       data |-> [id |-> el.id]])]]
    /\ UNCHANGED <<el, dataLayer, codec, pending, calls, keyAssigns, overlap>>

\* the awaited delete_element raises: nothing in remove catches it
DeleteFail(p) ==
    /\ frame[p].pc = "deleting"
    /\ frame' = [frame EXCEPT ![p] = [@ EXCEPT !.pc = "raised", !.err = "DataLayerError",
                                               !.tr = Append(@, "delete_element raised")]]
    /\ UNCHANGED <<el, dataLayer, codec, pending, calls, keyAssigns, overlap>>

\* the awaited emitter.emit("remove_element", ...) returns, and remove with it
RemoveReturn(p) ==
    /\ frame[p].pc = "removing"
    /\ frame' = [frame EXCEPT ![p] = [@ EXCEPT !.pc = "done", !.ret = "None"]]
    /\ UNCHANGED <<el, dataLayer, codec, pending, calls, keyAssigns, overlap>>

\* TaskList.add_task(task)
AddTask ==
    \E task \in Tasks :
        /\ el.type = "tasklist"
        /\ Len(el.tasks) < MaxTasks
        /\ el' = [el EXCEPT !.tasks = Append(@, task)]
        /\ UNCHANGED <<dataLayer, codec, frame, pending, calls, keyAssigns, overlap>>

\* no call is in progress: the flow that owns the element is free to change it
Quiet == \A p \in Callers : AtRest(frame[p])

\* the caller assigns TaskList.status
SetStatus ==
    \E st \in Statuses :
        /\ Quiet
        /\ el.type = "tasklist"
        /\ el.status # st
        /\ el' = [el EXCEPT !.status = st]
        /\ UNCHANGED <<dataLayer, codec, frame, pending, calls, keyAssigns, overlap>>

\* the caller assigns the status of a task of the list
SetTaskStatus ==
    \E i \in 1..Len(el.tasks), st \in AssignedStatus :
        /\ Quiet
        /\ el.type = "tasklist"
        /\ el.tasks[i].status # st
        /\ el' = [el EXCEPT !.tasks[i].status = st]
        /\ UNCHANGED <<dataLayer, codec, frame, pending, calls, keyAssigns, overlap>>

\* the event loop runs the task spawned at line 212: data_layer.create_element
\* reads the element as it is now, and succeeds or fails; nobody awaits the task
MetaRun ==
    \E c \in pending, ok \in BOOLEAN :
        /\ pending' = pending \ {c}
        /\ frame' = [p \in Callers |->
              IF frame[p].call = c
              THEN [frame[p] EXCEPT
                      !.tr = Append(@, IF ok THEN "create_element ran"
                                             ELSE "create_element failed"),
                      !.metaSaw = el.chainlit_key]
              ELSE frame[p]]
        /\ UNCHANGED <<el, dataLayer, codec, calls, keyAssigns, overlap>>

\* one logical flow drives the element: its calls follow one another
Flow == {"main"}

Step(p) ==
    \/ Send(p)
    \/ TaskListSend(p)
    \/ TaskListUpdate(p)
    \/ CustomUpdate(p)
    \/ Create(p)
    \/ UploadDone(p)
    \/ UploadFail(p)
    \/ SendReturn(p)
    \/ Remove(p)
    \/ DeleteDone(p)
    \/ DeleteFail(p)
    \/ RemoveReturn(p)

Next ==
    \/ \E p \in Flow : Step(p)
    \/ AddTask
    \/ MetaRun

Spec == Init /\ [][Next]_vars

(***************************************************************************)
(* A default TaskList, no data layer configured, driven by one flow that   *)
(* adds tasks and changes the statuses between its sends.                  *)
(***************************************************************************)
InitTasks ==
    /\ Init
    /\ el.type = "tasklist"
    /\ el.url = NoneV /\ el.path = NoneV /\ el.chainlit_key = NoneV /\ el.mime = NoneV
    /\ ~dataLayer

\* add_task awaited by the flow between two of its sends
AddTaskAtRest == Quiet /\ AddTask

NextTasks ==
    \/ \E p \in Flow :
          \/ TaskListSend(p)
          \/ TaskListUpdate(p)
          \/ UploadDone(p)
          \/ UploadFail(p)
          \/ SendReturn(p)
    \/ AddTaskAtRest
    \/ SetStatus
    \/ SetTaskStatus

SpecTasks == InitTasks /\ [][NextTasks]_vars

(***************************************************************************)
(* Two flows that share one File built from a path or from bytes, without  *)
(* url, and send it without waiting for one another; no data layer.        *)
(***************************************************************************)
InitConc ==
    /\ Init
    /\ el.type = "file"
    /\ el.url = NoneV
    /\ el.chainlit_key = NoneV
    /\ el.mime = NoneV
    /\ ~dataLayer

NextConc ==
    \/ \E p \in Callers :
          \/ Send(p)
          \/ UploadDone(p)
          \/ UploadFail(p)
          \/ SendReturn(p)

SpecConc == InitConc /\ [][NextConc]_vars

(***************************************************************************)
(* Construction, to_dict, from_dict and the mime resolution of send, each  *)
(* applied to one drawn input: constructor arguments, or a wire dictionary *)
(* whose type is absent or unknown.                                        *)
(***************************************************************************)
CodecUrls == Urls \cup {"", "https://x/y"}
CodecPaths == Paths \cup {"/tmp/a"}
CodecContents == Contents \cup {<<"bytes", "png">>, <<"str", "text">>}
CodecMimes == InitMimes \cup {""}

\* the constructor arguments: the sources, chainlit_key, mime, whether the
\* other keyword arguments the variant accepts are given (rich), and whether
\* figure / data is of the type Plotly / Dataframe ask for (payload)
CodecArgs ==
    [type : ElementType, url : CodecUrls, path : CodecPaths, content : CodecContents,
     key : InitKeys, mime : CodecMimes, rich : BOOLEAN, payload : BOOLEAN]

\* the constructor of variant a.type called with the arguments a
Make(a) ==
    LET e0 == New(a.type, a.url, a.path, a.content, a.key, a.mime)
        e1 == IF ~a.rich THEN e0
              ELSE [e0 EXCEPT !.display = "side",
                              !.size = "small",
                              !.language = IF a.type = "text" THEN "python" ELSE @,
                              !.page = IF a.type = "pdf" THEN "3" ELSE @,
                              !.auto_play = IF a.type = "audio" THEN "True" ELSE @,
                              !.player_config = IF a.type = "video" THEN "cfg" ELSE @,
                              !.props = IF a.type = "custom" THEN "{a: 1}" ELSE @,
                              !.content = IF a.type = "custom" THEN <<"str", "{a: 1}">> ELSE @]
    IN IF a.type \in {"plotly", "dataframe"} /\ ~a.payload
       THEN Raised("TypeError")
       ELSE Checked(e1)

\* the values of the keys of a wire dictionary other than url, path, content
WireSample ==
    [id |-> "e9", forId |-> "m1", name |-> "n.bin", objectKey |-> "o1",
     chainlitKey |-> "k1", display |-> "side", mime |-> "image/png", type |-> "weird"]

CommonKeys == {"id", "forId", "name", "objectKey", "chainlitKey", "display", "mime"}
SourceKeys == {"url", "path", "content"}

\* the wire dictionary with the keys ks
WireDict(ks, u, p, c) ==
    [k \in ks |-> CASE k = "url" -> u
                   [] k = "path" -> p
                   [] k = "content" -> c
                   [] OTHER -> WireSample[k]]

NoResult == [err |-> "none", obj |-> <<>>]

InitCodec ==
    /\ el = New("file", NoneV, NoneV, <<"bytes", "hello">>, NoneV, NoneV)
    /\ dataLayer = FALSE
    /\ frame = [x \in Callers |-> IdleFrame]
    /\ pending = {}
    /\ calls = 0
    /\ keyAssigns = 0
    /\ overlap = FALSE
    /\ \/ \E a \in CodecArgs :
             /\ a.payload \/ a.type \in {"plotly", "dataframe"}
             /\ codec = [phase |-> "args", a |-> <<a>>, made |-> NoResult, d |-> <<>>,
                         back |-> NoResult]
       \/ \E common \in {{}, CommonKeys}, tk \in SUBSET {"type"}, src \in SUBSET SourceKeys,
             u \in CodecUrls, p \in CodecPaths, c \in CodecContents :
             codec = [phase |-> "wire", a |-> <<>>, made |-> NoResult,
                      d |-> <<WireDict(common \cup tk \cup src, u, p, c)>>, back |-> NoResult]

\* the constructor runs
Construct ==
    /\ codec.phase = "args"
    /\ codec' = [codec EXCEPT !.phase = "made", !.made = Make(codec.a[1])]
    /\ UNCHANGED <<el, dataLayer, frame, pending, calls, keyAssigns, overlap>>

\* to_dict of the constructed element
Encode ==
    /\ codec.phase = "made"
    /\ codec.made.err = "-"
    /\ codec' = [codec EXCEPT !.phase = "encoded", !.d = <<to_dict(codec.made.obj[1])>>]
    /\ UNCHANGED <<el, dataLayer, frame, pending, calls, keyAssigns, overlap>>

\* from_dict of the dictionary: the one to_dict produced, or the drawn one
Decode ==
    /\ codec.phase \in {"encoded", "wire"}
    /\ codec' = [codec EXCEPT !.phase = "decoded", !.back = from_dict(codec.d[1])]
    /\ UNCHANGED <<el, dataLayer, frame, pending, calls, keyAssigns, overlap>>

\* lines 237-245 of send on the constructed element
Resolve ==
    /\ codec.phase = "made"
    /\ codec.made.err = "-"
    /\ codec' = [codec EXCEPT !.phase = "resolved",
                              !.back = Object(ResolveMime(codec.made.obj[1]))]
    /\ UNCHANGED <<el, dataLayer, frame, pending, calls, keyAssigns, overlap>>

NextCodec ==
    \/ Construct
    \/ Encode
    \/ Decode
    \/ Resolve

SpecCodec == InitCodec /\ [][NextCodec]_vars

(***************************************************************************)
(* Reading a call's record.                                                *)
(***************************************************************************)
Has(tr, tag) == \E i \in 1..Len(tr) : tr[i] = tag
Count(tr, tag) == Cardinality({i \in 1..Len(tr) : tr[i] = tag})
\* the first position of tag in tr, 0 when it is absent
Pos(tr, tag) == IF Has(tr, tag) THEN CHOOSE i \in 1..Len(tr) :
                                         tr[i] = tag /\ \A j \in 1..(i - 1) : tr[j] # tag
                ELSE 0
Before(tr, a, b) == Has(tr, a) /\ Has(tr, b) /\ Pos(tr, a) < Pos(tr, b)
IsSend(f) == f.op \in {"send", "update"}
Finished(f) == f.pc \in {"done", "raised"}
NonEmpty(v) == v # NoneV /\ v # ""

\* C1: a _create call on a non-updatable element whose persisted flag is
\* already true asks nothing of the session or of the data layer, changes no
\* field of the element and returns True
C1_CreateIdempotent ==
    \A p \in Callers :
        LET f == frame[p]
        IN /\ (f.op = "create" /\ f.pre[1].persisted /\ ~f.pre[1].updatable)
              => /\ f.tr = <<>>
                 /\ f.upload = <<>>
                 /\ f.out = <<>>
                 /\ f.call \notin pending
                 /\ el = f.pre[1]
                 /\ f.pc = "done"
                 /\ f.ret = "True"
           \* the same for the _create that send calls: only send's own
           \* assignments (for_id, mime) and its emission are seen
           /\ (IsSend(f) /\ f.pre[1].persisted /\ ~f.pre[1].updatable)
              => /\ ~Has(f.tr, "create_element")
                 /\ ~Has(f.tr, "persist_file")
                 /\ f.upload = <<>>
                 /\ f.call \notin pending
                 /\ el = [f.pre[1] EXCEPT !.for_id = el.for_id, !.mime = el.mime]

C1_Witness ==
    \E p \in Callers :
        /\ frame[p].op = "create"
        /\ frame[p].persist
        /\ frame[p].pre[1].persisted
        /\ ~frame[p].pre[1].updatable
        /\ dataLayer
        /\ Falsy(el.url)
        /\ frame[p].pc = "done"

\* C2: a send emits send_element only for an element that, after the create
\* step, has a non-empty url or a non-empty chainlit_key; with neither, the
\* send raises the delivery error and emits nothing
C2_Deliverability ==
    \A p \in Callers :
        LET f == frame[p]
            hasRef == NonEmpty(el.url) \/ NonEmpty(el.chainlit_key)
        IN IsSend(f) =>
             /\ \A i \in 1..Len(f.out) :
                    /\ f.out[i].event = "send_element"
                    /\ NonEmpty(f.out[i].data.url) \/ NonEmpty(f.out[i].data.chainlitKey)
             /\ (f.pc \in {"emitting", "done"}) => hasRef /\ Len(f.out) = 1
             /\ (f.pc = "raised" /\ f.err # "UploadError")
                    => ~hasRef /\ f.err = "ValueError" /\ f.out = <<>>
             /\ (f.pc # "uploading" /\ f.err # "UploadError" /\ ~hasRef)
                    => f.pc = "raised" /\ f.err = "ValueError"

C2_Witness ==
    \E p \in Callers :
        /\ IsSend(frame[p])
        /\ frame[p].pc = "raised"
        /\ frame[p].err = "ValueError"
        /\ Has(frame[p].tr, "file_dict")

\* C3: over calls made one after another, chainlit_key is assigned at most
\* once on an element that is not updatable
C3_KeyAssignedOnce == ~el.updatable => keyAssigns <= 1

C3_Witness ==
    /\ ~el.updatable
    /\ keyAssigns = 1
    /\ calls = 2
    /\ frame["main"].op = "send"
    /\ frame["main"].pc = "done"
    /\ frame["main"].pre[1].persisted
    /\ Falsy(el.url)

\* a metadata-layer error met by the call: create_element failing where it
\* is spawned or while it runs, delete_element raising
CreateMetaError(f) == Has(f.tr, "logger.error") \/ Has(f.tr, "create_element failed")
MetaLayerError(f) == CreateMetaError(f) \/ Has(f.tr, "delete_element raised")

\* C4: a metadata-layer error never reaches the caller of send or remove and
\* never keeps the rest of the operation (the upload and the send_element
\* emission, the remove_element emission) from happening
C4_MetadataErrorsSuppressed ==
    \A p \in Callers :
        LET f == frame[p]
        IN MetaLayerError(f) =>
             /\ f.err # "DataLayerError"
             /\ (f.op = "remove" /\ Finished(f)) => Has(f.tr, "remove_element")
             /\ (IsSend(f) /\ f.pc = "done") => Has(f.tr, "send_element")

\* C4, the part about create/send alone: a create_element failure leaves the
\* call on the course it takes without the failure
C4_CreateErrorsSuppressed ==
    \A p \in Callers :
        LET f == frame[p]
        IN (f.op # "remove" /\ CreateMetaError(f)) =>
             /\ f.err # "DataLayerError"
             /\ (Falsy(f.pre[1].url) /\ (Falsy(f.pre[1].chainlit_key) \/ f.pre[1].updatable))
                    => Has(f.tr, "persist_file")
             /\ (IsSend(f) /\ f.pc \in {"emitting", "done"}) => Has(f.tr, "send_element")
             /\ (IsSend(f) /\ f.pc = "raised") => f.err \in {"UploadError", "ValueError"}

\* C5: a failing persist_file ends the create or send call with the upload
\* error, and that call emits no send_element
C5_UploadErrorPropagates ==
    \A p \in Callers :
        LET f == frame[p]
        IN Has(f.tr, "persist_file raised") =>
             /\ f.pc = "raised"
             /\ f.err = "UploadError"
             /\ f.ret = "-"
             /\ f.out = <<>>
             /\ ~Has(f.tr, "send_element")

C5_Witness ==
    \E p \in Callers :
        /\ frame[p].op = "send"
        /\ Has(frame[p].tr, "persist_file raised")
        /\ NonEmpty(el.chainlit_key)

\* C6: every remove() call emits remove_element with the element's id, with
\* or without a data layer, and with one the delete_element request comes
\* before that event
C6_RemoveAlwaysEmits ==
    \A p \in Callers :
        LET f == frame[p]
        IN (f.op = "remove" /\ Finished(f)) =>
             /\ f.out = <<[event |-> "remove_element", data |-> [id |-> el.id]]>>
             /\ dataLayer => Before(f.tr, "delete_element", "remove_element")

\* a send that needs both an upload and a metadata write
NeedsBoth(f) ==
    /\ IsSend(f)
    /\ dataLayer
    /\ f.persist
    /\ Falsy(f.pre[1].url)
    /\ Falsy(f.pre[1].chainlit_key) \/ f.pre[1].updatable
    /\ ~(f.pre[1].persisted /\ ~f.pre[1].updatable)

LifecycleOrder == <<"create_element", "persist_file", "file_dict", "send_element">>
OrderTag(t) == t \in {"create_element", "persist_file", "file_dict", "send_element"}
IsPrefix(a, b) == Len(a) <= Len(b) /\ \A i \in 1..Len(a) : a[i] = b[i]

\* C7, as the claim states it: in a send that needs both, the metadata write
\* comes after the upload and sees the chainlit_key the upload assigned
C7_MetadataAfterUpload ==
    \A p \in Callers :
        LET f == frame[p]
        IN (NeedsBoth(f) /\ Has(f.tr, "create_element ran")) =>
             /\ Before(f.tr, "file_dict", "create_element ran")
             /\ f.metaSaw = f.fileId

\* C7, amended: in a send that needs both, the metadata write is requested
\* first, the upload is requested after it, chainlit_key is assigned when the
\* upload returns, and send_element is emitted last
C7_StepOrder ==
    \A p \in Callers :
        LET f == frame[p]
            steps == SelectSeq(f.tr, OrderTag)
        IN NeedsBoth(f) =>
             /\ Len(steps) >= 2
             /\ IsPrefix(steps, LifecycleOrder)
             /\ f.pc \in {"emitting", "done"} => steps = LifecycleOrder

\* the metadata write of the call ran while the upload was still awaited, and
\* the send went on to emit
C7_Witness ==
    \E p \in Callers :
        /\ NeedsBoth(frame[p])
        /\ frame[p].tr = <<"create_element", "persist_file", "create_element ran",
                           "file_dict", "send_element">>
        /\ frame[p].metaSaw # frame[p].fileId

\* C8: send_element is never emitted while the upload of the call is still
\* awaited: the upload has returned and the emitted chainlitKey is the id it
\* returned
C8_UploadAwaitedBeforeEmit ==
    \A p \in Callers :
        LET f == frame[p]
        IN (IsSend(f) /\ Has(f.tr, "persist_file")) =>
             /\ f.pc = "uploading" => f.out = <<>>
             /\ f.out # <<>> =>
                    /\ Before(f.tr, "file_dict", "send_element")
                    /\ f.out[1].data.chainlitKey = f.fileId
                    /\ el.chainlit_key = f.fileId

\* C8: the send has emitted and returned, and its metadata write has not run
C8_Witness ==
    \E p \in Callers :
        /\ IsSend(frame[p])
        /\ frame[p].pc = "done"
        /\ Has(frame[p].tr, "file_dict")
        /\ Has(frame[p].tr, "send_element")
        /\ frame[p].call \in pending

\* C9: an element with a non-empty url is never uploaded and never has
\* chainlit_key assigned, updatable or not, and each of its sends emits
\* send_element
C9_UrlNeverUploads ==
    NonEmpty(el.url) =>
        /\ keyAssigns = 0
        /\ \A p \in Callers :
              LET f == frame[p]
              IN /\ f.upload = <<>>
                 /\ ~Has(f.tr, "persist_file")
                 /\ IsSend(f) =>
                        /\ f.pc \in {"emitting", "done"}
                        /\ Len(f.out) = 1
                        /\ f.out[1].event = "send_element"
                        /\ f.out[1].data.url = el.url
                        /\ el.chainlit_key = f.pre[1].chainlit_key

C9_Witness ==
    /\ NonEmpty(el.url)
    /\ el.updatable
    /\ calls = 2
    /\ IsSend(frame["main"])
    /\ frame["main"].pre[1].persisted
    /\ frame["main"].pc = "done"

\* a send or update of an updatable element that has no url
UpdatableSend(f) == IsSend(f) /\ f.pre[1].updatable /\ Falsy(f.pre[1].url)

\* C10, as the claim states it: every send/update of an updatable element
\* without url performs one upload, replaces chainlit_key with the returned
\* reference and emits one send_element
C10_EverySendUploadsAndEmits ==
    \A p \in Callers :
        LET f == frame[p]
        IN (UpdatableSend(f) /\ Finished(f)) =>
             /\ Count(f.tr, "persist_file") = 1
             /\ el.chainlit_key = f.fileId
             /\ Len(f.out) = 1

\* C10, amended: every send/update of an updatable element without url,
\* persisted or not, requests one upload; when the upload returns a non-empty
\* reference the call replaces chainlit_key with it and emits one
\* send_element; when the upload raises, chainlit_key stays as it was and
\* nothing is emitted; when the returned reference is empty the send raises
\* the delivery error
C10_UpdatableReuploads ==
    \A p \in Callers :
        LET f == frame[p]
        IN UpdatableSend(f) =>
             /\ Count(f.tr, "persist_file") = 1
             /\ Len(f.upload) = 1
             /\ f.pc \in {"emitting", "done"} =>
                    /\ Has(f.tr, "file_dict")
                    /\ NonEmpty(f.fileId)
                    /\ el.chainlit_key = f.fileId
                    /\ Len(f.out) = 1
                    /\ f.out[1].event = "send_element"
                    /\ f.out[1].data.chainlitKey = f.fileId
             /\ f.pc = "raised" =>
                    /\ f.out = <<>>
                    /\ \/ f.err = "UploadError" /\ el.chainlit_key = f.pre[1].chainlit_key
                       \/ f.err = "ValueError" /\ f.fileId = "" /\ el.chainlit_key = ""

\* the second send of a persisted updatable element replaced the key
C10_Witness ==
    \E p \in Callers :
        /\ UpdatableSend(frame[p])
        /\ frame[p].pre[1].persisted
        /\ NonEmpty(frame[p].pre[1].chainlit_key)
        /\ frame[p].pc = "done"
        /\ el.chainlit_key = frame[p].fileId
        /\ frame[p].fileId # frame[p].pre[1].chainlit_key

(***************************************************************************)
(* C11..C20                                                                *)
(***************************************************************************)

\* a send or update of a TaskList that reached the upload request
TaskListUpload(f) == IsSend(f) /\ f.pre[1].type = "tasklist" /\ f.upload # <<>>

\* the tokens of content that describe the i-th task
TaskSlot(c, i) == <<c[3 * i + 2], c[3 * i + 3], c[3 * i + 4]>>

IsCustomUpdate(f) == f.op = "update" /\ f.pre[1].type = "custom"

\* C12: CustomElement.update re-sends the element under the for_id it already
\* had: the for_id passed to send is the one found on the element, the element
\* keeps it, and the emitted payload carries it as forId
C12_UpdateKeepsForId ==
    \A p \in Callers :
        LET f == frame[p]
        IN IsCustomUpdate(f) =>
             /\ f.arg = f.pre[1].for_id
             /\ el.for_id = f.pre[1].for_id
             /\ \A i \in 1..Len(f.out) : f.out[i].data.forId = f.pre[1].for_id

\* an update that followed a send to a message was emitted
C12_Witness ==
    \E p \in Callers :
        /\ IsCustomUpdate(frame[p])
        /\ frame[p].pre[1].for_id \in ForIds
        /\ frame[p].pc = "done"
        /\ Len(frame[p].out) = 1

\* a send or update that got as far as the emission
Succeeded(f) == IsSend(f) /\ f.pc \in {"emitting", "done"}

\* C13: a successful send(for_id) leaves for_id on the element and emits
\* exactly one send_element event; its forId is the for_id argument of the
\* call, its type is the type the variant was constructed with, and its
\* chainlitKey is the reference the upload of this call returned or, when the
\* call uploaded nothing, the reference the element already carried
C13_SendEmitsOnce ==
    \A p \in Callers :
        LET f == frame[p]
        IN Succeeded(f) =>
             /\ el.for_id = f.arg
             /\ el.type = f.pre[1].type
             /\ Len(f.out) = 1
             /\ Count(f.tr, "send_element") = 1
             /\ f.out[1].event = "send_element"
             /\ f.out[1].data.forId = f.arg
             /\ f.out[1].data.type = f.pre[1].type
             /\ f.out[1].data.chainlitKey =
                    IF Has(f.tr, "file_dict") THEN f.fileId ELSE f.pre[1].chainlit_key

\* a File built from bytes was sent to message m1: uploaded, keyed, emitted
C13_Witness ==
    \E p \in Callers :
        /\ Succeeded(frame[p])
        /\ frame[p].pc = "done"
        /\ frame[p].pre[1].type = "file"
        /\ IsBytes(frame[p].pre[1].content)
        /\ frame[p].pre[1].for_id = NoneV
        /\ frame[p].arg = "m1"
        /\ NonEmpty(frame[p].fileId)
        /\ frame[p].out[1].data.chainlitKey = frame[p].fileId

\* a call that runs _create: _create itself, send or update
RunsCreate(f) == f.op \in {"create", "send", "update"}

\* the call found the element persisted and not updatable
FoundSettled(f) == f.pre[1].persisted /\ ~f.pre[1].updatable

\* the call found an element whose content has to be uploaded
FoundUploadable(f) ==
    /\ ~FoundSettled(f)
    /\ Falsy(f.pre[1].url)
    /\ (Falsy(f.pre[1].chainlit_key) \/ f.pre[1].updatable)

\* C17: a create/send call requests the metadata write (create_element)
\* exactly once when a data layer is configured, persist is true and the call
\* is not short-circuited, and not at all otherwise; with persist false or no
\* data layer the upload is still requested, and a send whose upload did not
\* fail and that has a reference to deliver still emits its one send_element
C17_MetadataWriteRequested ==
    \A p \in Callers :
        LET f == frame[p]
        IN RunsCreate(f) =>
             /\ Count(f.tr, "create_element") =
                    IF dataLayer /\ f.persist /\ ~FoundSettled(f) THEN 1 ELSE 0
             /\ ~(dataLayer /\ f.persist) =>
                    /\ ~Has(f.tr, "create_element")
                    /\ FoundUploadable(f) => Count(f.tr, "persist_file") = 1
                    /\ (/\ IsSend(f)
                        /\ Finished(f)
                        /\ f.err # "UploadError"
                        /\ (NonEmpty(el.url) \/ NonEmpty(el.chainlit_key)))
                       => Len(f.out) = 1

\* with a data layer configured, a send with persist=False uploaded and
\* emitted without requesting the metadata write
C17_Witness ==
    \E p \in Callers :
        /\ dataLayer
        /\ IsSend(frame[p])
        /\ ~frame[p].persist
        /\ frame[p].pc = "done"
        /\ Has(frame[p].tr, "file_dict")
        /\ Len(frame[p].out) = 1
        /\ ~Has(frame[p].tr, "create_element")

\* the _create of the call returned normally: the call is done or emitting,
\* or it is a send that raised its own error after _create had returned
CreateReturned(f) ==
    /\ RunsCreate(f)
    /\ \/ f.pc \in {"emitting", "done"}
       \/ f.pc = "raised" /\ f.err = "ValueError"

\* C19: persisted is false on a constructed element of any variant until a
\* call is made; it is true once a _create has returned normally, whatever
\* became of the metadata write; a _create that raised the upload error left
\* persisted and chainlit_key as it found them, so that an element that had to
\* be uploaded still has to be; and no operation, remove included, finds
\* persisted true and leaves it false
C19_PersistedFlag ==
    /\ calls = 0 => ~el.persisted
    /\ \A p \in Callers :
          LET f == frame[p]
          IN /\ CreateReturned(f) => el.persisted
             /\ (RunsCreate(f) /\ f.err = "UploadError") =>
                    /\ el.persisted = f.pre[1].persisted
                    /\ el.chainlit_key = f.pre[1].chainlit_key
                    /\ el.url = f.pre[1].url
             /\ (f.pc # "idle" /\ f.pre[1].persisted) => el.persisted

\* a send found the element unpersisted although an earlier send had already
\* given it a for_id (that send's upload had failed), uploaded and marked it
C19_Witness ==
    \E p \in Callers :
        /\ frame[p].call = 2
        /\ IsSend(frame[p])
        /\ frame[p].pre[1].for_id \in ForIds
        /\ ~frame[p].pre[1].persisted
        /\ Has(frame[p].tr, "file_dict")
        /\ frame[p].pc = "done"
        /\ el.persisted

\* C20: on an element that is not updatable, chainlit_key is assigned by more
\* than one upload only when some call was started while another caller's call
\* was still in progress: with the calls made one after the other it does not
\* happen; C20_Witness is the interleaved execution in which it does
C20_DoubleUploadNeedsOverlap ==
    (~el.updatable /\ keyAssigns > 1) => overlap

\* both callers' sends requested persist_file and both assigned chainlit_key
C20_Witness ==
    /\ ~el.updatable
    /\ Falsy(el.url)
    /\ overlap
    /\ keyAssigns = 2
    /\ \A p \in Callers :
          /\ frame[p].op = "send"
          /\ Count(frame[p].tr, "persist_file") = 1
          /\ Has(frame[p].tr, "file_dict")
          /\ frame[p].pc = "done"

\* the element an operation of SpecCodec started from, and what it ended with
Made == codec.made.obj[1]
Back == codec.back.obj[1]

\* equality on the fields the wire format carries
SameOnWire(x, y) ==
    /\ x.id = y.id
    /\ x.type = y.type
    /\ x.name = y.name
    /\ x.display = y.display
    /\ x.size = y.size
    /\ x.mime = y.mime
    /\ x.page = y.page
    /\ x.language = y.language
    /\ x.auto_play = y.auto_play
    /\ x.player_config = y.player_config
    /\ x.props = y.props

\* C14, as the claim states it: from_dict(to_dict(e)) succeeds for every
\* constructed element e of every variant and equals e on id, type, name,
\* display, size, mime, page, language, auto_play, player_config and props
C14_RoundTrip ==
    (codec.phase = "decoded" /\ codec.a # <<>>) =>
        /\ codec.back.err = "-"
        /\ SameOnWire(Back, Made)

\* the field of an element that a common key of the dictionary is decoded to
FieldOf(e, k) ==
    CASE k = "id" -> e.id
      [] k = "forId" -> e.for_id
      [] k = "name" -> e.name
      [] k = "path" -> e.path
      [] k = "url" -> e.url
      [] k = "content" -> e.content
      [] k = "objectKey" -> e.object_key
      [] k = "chainlitKey" -> e.chainlit_key
      [] k = "display" -> e.display
      [] k = "mime" -> e.mime

\* C15, as the claim states it: a dictionary whose type is absent or unknown
\* decodes to a File that carries the dictionary's id, forId, name, path, url,
\* content, objectKey, chainlitKey, display and mime
C15_UnknownTypeDecodesToFile ==
    (codec.phase = "decoded" /\ codec.a = <<>>) =>
        /\ codec.back.err = "-"
        /\ Back.type = "file"
        /\ \A k \in DOMAIN codec.d[1] \ {"type"} : FieldOf(Back, k) = codec.d[1][k]

\* the sources among url, path, content that are non-empty on element e
Sources(e) ==
    {k \in SourceKeys : CASE k = "url" -> ~Falsy(e.url)
                          [] k = "path" -> ~Falsy(e.path)
                          [] k = "content" -> ~ContentFalsy(e.content)}

\* the constructor has run on drawn arguments
Constructed == codec.phase \in {"made", "encoded", "decoded", "resolved"} /\ codec.a # <<>>

\* the variants whose content is filled in by the class, not by the caller
FillsContent == {"tasklist", "custom", "plotly", "dataframe"}

NoMime(m) == m = NoneV \/ m = ""

\* mime is m, or absent when m is None
MimeIs(r, m) == IF m = NoneV THEN NoMime(r.mime) ELSE r.mime = m

\* C18: the mime resolution of send changes no field but mime; a non-empty
\* mime is kept; an absent one becomes the table's value for text, tasklist
\* and plotly whatever the sources are; else, with a path or a bytes content,
\* what sniffing the path (first) or the bytes finds, and nothing when it
\* finds nothing, the url not being consulted; else, with a url, what guessing
\* from the url finds; else it stays absent
C18_MimePriority ==
    codec.phase = "resolved" =>
        LET e == Made
            r == Back
        IN /\ r = [e EXCEPT !.mime = r.mime]
           /\ ~NoMime(e.mime) => r.mime = e.mime
           /\ NoMime(e.mime) =>
                CASE e.type = "text" -> r.mime = "text/plain"
                  [] e.type \in {"tasklist", "plotly"} -> r.mime = "application/json"
                  [] ~Falsy(e.path) -> MimeIs(r, SniffPath(e.path))
                  [] e.content[1] = "bytes" -> MimeIs(r, SniffBytes(e.content))
                  [] ~Falsy(e.url) -> MimeIs(r, GuessType(e.url))
                  [] OTHER -> NoMime(r.mime)

\* a File with no mime, a path that sniffing does not recognise and a url
\* that guessing would recognise: mime stays absent
C18_Witness ==
    /\ codec.phase = "resolved"
    /\ Made.type = "file"
    /\ NoMime(Made.mime)
    /\ ~Falsy(Made.path)
    /\ SniffPath(Made.path) = NoneV
    /\ GuessType(Made.url) # NoneV
    /\ NoMime(Back.mime)

====
